---- MODULE Spec2Model ----
(***************************************************************************)
(* Model of the ghet repository cache and git engine abstraction of        *)
(* release-maker: the per-user cache directory (ghet/src/cache.rs), the    *)
(* git engines and repository handles (ghet/src/git.rs), the resolver that *)
(* chains local path, cache and remote clone, and the commit range         *)
(* selection.  Strings are sequences of one-character strings; paths are   *)
(* sequences of components, an absolute path starting with RootDir.        *)
(***************************************************************************)
EXTENDS Naturals, Integers, Sequences, FiniteSets, TLC

VARIABLES
    cache,              \* the Cache value: [path, program_name]
    engine,             \* the Git engine the tool was built with: "Git2" or "GitBin"
    repos,              \* the disk: path of every valid repository -> URL of its origin
    progDir,            \* whether the program cache directory exists on disk
    pc,                 \* position of the running resolution
    ref,                \* reference string of the running resolution
    calls,              \* engine calls made by the running resolution, in order
    result,             \* what the last resolution returned
    clonedSinceClear,   \* history: URLs whose resolution succeeded by cloning since the last clear
    lastClear,          \* the last Cache::clear: [ret, after, removed]
    apiOut,             \* last direct call of the GitBin engine: [called, op, result]
    derived,            \* last call of Cache::repository_path_url: [called, url, result]
    walkOut,            \* last call of Repository::commits: [called, reference, walk, result]
    sel,                \* last range selection: [called, commits, start, end, result]
    pathsOut,           \* last call of Cache::repository_path: [called, name, result]
    urlOut,             \* last call of Repository::url: [called, remote, result]
    race                \* two resolutions of one URL running at once: [url, pc, res, writers]

vars == <<cache, engine, repos, progDir, pc, ref, calls, result,
          clonedSinceClear, lastClear, apiOut, derived, walkOut, sel, pathsOut, urlOut, race>>

----------------------------------------------------------------------------
(* Bounds *)

MaxLen == 2         \* longest reference body after the scheme
MaxCached == 2      \* most repositories the cache holds at once
MaxWalk == 2        \* longest commit walk
MaxCommits == 5     \* longest commit list handed to the range selection

----------------------------------------------------------------------------
(* Strings *)

Alphabet == {"a", "/"}

Strings(n) == UNION {[1..k -> Alphabet] : k \in 0..n}

HTTP == <<"h", "t", "t", "p", ":", "/", "/">>

HTTPS == <<"h", "t", "t", "p", "s", ":", "/", "/">>

Schemes == {<< >>, HTTP, HTTPS}

References == {s \o b : s \in Schemes, b \in Strings(MaxLen)}

starts_with(s, p) == Len(s) >= Len(p) /\ SubSeq(s, 1, Len(p)) = p

SlashIndices(s) == {i \in 1..Len(s) : s[i] = "/"}

MaxOf(S) == CHOOSE x \in S : \A y \in S : y <= x

MinOf(S) == CHOOSE x \in S : \A y \in S : x <= y

\* str::rsplit('/').next(): the text after the last '/', the whole string when
\* it has none.  rsplit always yields at least one item, so this is always Some.
rsplit_next(s) ==
    IF SlashIndices(s) = {}
    THEN [some |-> TRUE, val |-> s]
    ELSE [some |-> TRUE, val |-> SubSeq(s, MaxOf(SlashIndices(s)) + 1, Len(s))]

----------------------------------------------------------------------------
(* Paths: std::path *)

RootDir == <<"/">>

RECURSIVE Split(_)
Split(s) ==
    IF SlashIndices(s) = {}
    THEN <<s>>
    ELSE LET i == MinOf(SlashIndices(s))
         IN  <<SubSeq(s, 1, i - 1)>> \o Split(SubSeq(s, i + 1, Len(s)))

NonEmpty(x) == x # << >>

\* AsRef<Path>: the components of a path string; repeated and trailing
\* separators vanish, a leading separator is the root component.
Components(s) ==
    (IF starts_with(s, <<"/">>) THEN <<RootDir>> ELSE << >>)
        \o SelectSeq(Split(s), NonEmpty)

is_absolute(p) == p # << >> /\ p[1] = RootDir

\* Path::join: an absolute argument replaces the base.
join(base, p) == IF is_absolute(p) THEN p ELSE base \o p

IsPrefix(p, q) == Len(p) <= Len(q) /\ SubSeq(q, 1, Len(p)) = p

----------------------------------------------------------------------------
(* Cache: ghet/src/cache.rs *)

\* BaseDirs::cache_dir(): the per-user cache root the system provides.
CacheDir == <<RootDir, <<"c">>>>

ProgramNames == {<<"g">>, <<"g", "/", "a">>}

Cache_new(program_name) == [path |-> CacheDir, program_name |-> program_name]

program_path(c) == join(c.path, Components(c.program_name))

repository_path(c, repo_name) == join(program_path(c), Components(repo_name))

repository_path_url(c, repo_url) ==
    LET repo_name == rsplit_next(repo_url)
    IN  IF repo_name.some
        THEN [ok |-> TRUE, path |-> repository_path(c, repo_name.val)]
        ELSE [ok |-> FALSE, path |-> << >>]

repository_exists(c, repo_name) ==
    \/ repository_path(c, repo_name) \in DOMAIN repos
    \/ \E q \in DOMAIN repos : IsPrefix(repository_path(c, repo_name), q)
    \/ (progDir /\ repository_path(c, repo_name) = program_path(c))

CachedPaths == {q \in DOMAIN repos : IsPrefix(program_path(cache), q)}

Restrict(f, S) == [x \in S |-> f[x]]

\* Cache::clear: remove_dir_all(program_path), an error when it is absent.
Cache_clear ==
    IF progDir
    THEN [ret |-> "ok", repos |-> Restrict(repos, DOMAIN repos \ CachedPaths),
          progDir |-> FALSE]
    ELSE [ret |-> "err", repos |-> repos, progDir |-> progDir]

----------------------------------------------------------------------------
(* Results *)

None == [some |-> FALSE, val |-> 0]

Some(v) == [some |-> TRUE, val |-> v]

Ok(p) == [kind |-> "ok", path |-> p, err |-> ""]

Err(e) == [kind |-> "err", path |-> << >>, err |-> e]

Panic == [kind |-> "panic", path |-> << >>, err |-> ""]

NoResult == [kind |-> "none", path |-> << >>, err |-> ""]

----------------------------------------------------------------------------
(* Git engines: ghet/src/git.rs *)

Engines == {"Git2", "GitBin"}

\* Mutant: open never finds a repository.
Git2_open_never(repo_path) == Err("EngineError")

\* Mutant: open reports a repository at every path.
Git2_open_always(repo_path) == Ok(repo_path)

\* Git2Repository::open: succeeds exactly on a path holding a repository.
Git2_open(repo_path) ==
    IF repo_path \in DOMAIN repos THEN Ok(repo_path) ELSE Err("EngineError")

\* The destination of a clone must be absent or an empty directory.
Occupied(destination) == \E q \in DOMAIN repos : IsPrefix(destination, q)

\* Mutant: a clone that reports success and leaves nothing at the destination.
Git2_clone_nowhere(repo_url, destination, remoteOk) ==
    IF remoteOk /\ ~Occupied(destination)
    THEN [res |-> Ok(destination), repos |-> repos, progDir |-> progDir]
    ELSE [res |-> Err("EngineError"), repos |-> repos, progDir |-> progDir]

\* Git2Repository::clone: remoteOk is the network's answer for repo_url.
Git2_clone(repo_url, destination, remoteOk) ==
    IF remoteOk /\ ~Occupied(destination)
    THEN [res |-> Ok(destination),
          repos |-> (destination :> repo_url) @@ repos,
          progDir |-> (progDir \/ IsPrefix(program_path(cache), destination))]
    ELSE [res |-> Err("EngineError"), repos |-> repos, progDir |-> progDir]

\* GitBin::open is todo!(): the call panics.
GitBin_open(repo_path) == Panic

\* GitBin::clone is todo!(): the call panics.
GitBin_clone(repo_url, destination, remoteOk) ==
    [res |-> Panic, repos |-> repos, progDir |-> progDir]

\* Git::open, dispatched on the engine.
open(repo_path) ==
    IF engine = "Git2" THEN Git2_open(repo_path) ELSE GitBin_open(repo_path)

\* Git::clone, dispatched on the engine.
clone(repo_url, destination, remoteOk) ==
    IF engine = "Git2"
    THEN Git2_clone(repo_url, destination, remoteOk)
    ELSE GitBin_clone(repo_url, destination, remoteOk)

----------------------------------------------------------------------------
(* Resolver *)

is_url(reference) == starts_with(reference, HTTP) \/ starts_with(reference, HTTPS)

OpenCall(p, r) == [op |-> "open", url |-> << >>, path |-> p, out |-> r.kind]

CloneCall(u, p, r) == [op |-> "clone", url |-> u, path |-> p, out |-> r.kind]

Stopped == pc \in {"idle", "done", "crashed"}

LocalRepos == {<<<<"a">>>>, <<RootDir, <<"a">>>>}

LocalOrigin == HTTPS \o <<"a", "/", "a">>

IdleDerived == [called |-> FALSE, url |-> << >>, result |-> [ok |-> FALSE, path |-> << >>]]

IdleWalk == [called |-> FALSE, reference |-> "missing", walk |-> << >>,
             result |-> [kind |-> "none", list |-> << >>],
             error |-> "none", read |-> 0]

IdleSel == [called |-> FALSE, commits |-> << >>, start |-> None, end |-> None,
            result |-> [kind |-> "none", list |-> << >>]]

IdleApi == [called |-> FALSE, op |-> "none", result |-> NoResult]

IdlePaths == [called |-> FALSE, name |-> << >>, program |-> << >>, result |-> << >>]

IdleUrl == [called |-> FALSE, remote |-> [found |-> FALSE, url |-> None],
            result |-> [kind |-> "none", url |-> << >>]]

IdleRace == [url |-> << >>, pc |-> << >>, res |-> << >>, writers |-> {}]

\* The last command was no clear.  ret is what clear returned, after is what
\* the command before it returned when that was a clear too, prior is the
\* names repository_exists answered true for before the last successful clear.
NoClear == [ret |-> "none", after |-> "none", prior |-> {}]

\* No command has run yet.
Quiet ==
    /\ pc = "idle"
    /\ ref = << >>
    /\ calls = << >>
    /\ result = NoResult
    /\ clonedSinceClear = {}
    /\ lastClear = NoClear
    /\ apiOut = IdleApi
    /\ pathsOut = IdlePaths
    /\ urlOut = IdleUrl
    /\ race = IdleRace
    /\ derived = IdleDerived
    /\ walkOut = IdleWalk
    /\ sel = IdleSel

Init ==
    /\ cache \in {Cache_new(n) : n \in ProgramNames}
    /\ engine \in Engines
    /\ repos = [p \in LocalRepos |-> LocalOrigin]
    /\ progDir \in BOOLEAN
    /\ Quiet

\* resolve, entry: a URL reference derives its cache path first.
Start(reference) ==
    /\ Stopped
    /\ ref' = reference
    /\ calls' = << >>
    /\ lastClear' = NoClear
    /\ IF is_url(reference)
       THEN IF repository_path_url(cache, reference).ok
            THEN pc' = "url_open" /\ result' = NoResult
            ELSE pc' = "done" /\ result' = Err("DerivationError")
       ELSE pc' = "local_open" /\ result' = NoResult
    /\ UNCHANGED <<cache, engine, repos, progDir, clonedSinceClear, apiOut, derived, walkOut, sel, pathsOut, urlOut, race>>

\* resolve, step 1b: open the cache path of the URL.
UrlOpen ==
    /\ pc = "url_open"
    /\ LET p == repository_path_url(cache, ref).path
           r == open(p)
       IN  /\ calls' = Append(calls, OpenCall(p, r))
           /\ pc' = CASE r.kind = "ok" -> "done"
                      [] r.kind = "err" -> "url_clone"
                      [] OTHER -> "crashed"
           /\ result' = IF r.kind = "err" THEN NoResult ELSE r
    /\ UNCHANGED <<cache, engine, repos, progDir, ref, clonedSinceClear, lastClear,
                   apiOut, derived, walkOut, sel, pathsOut, urlOut, race>>

\* resolve, step 1c: clone the URL into its cache path; the result is returned as it is.
UrlClone ==
    /\ pc = "url_clone"
    /\ \E remoteOk \in BOOLEAN :
        /\ remoteOk => Cardinality(CachedPaths) < MaxCached
        /\ LET p == repository_path_url(cache, ref).path
               c == clone(ref, p, remoteOk)
           IN  /\ calls' = Append(calls, CloneCall(ref, p, c.res))
               /\ repos' = c.repos
               /\ progDir' = c.progDir
               /\ result' = c.res
               /\ pc' = IF c.res.kind = "panic" THEN "crashed" ELSE "done"
               /\ clonedSinceClear' = IF c.res.kind = "ok"
                                      THEN clonedSinceClear \cup {ref}
                                      ELSE clonedSinceClear
    /\ UNCHANGED <<cache, engine, ref, lastClear, apiOut, derived, walkOut, sel, pathsOut, urlOut, race>>

\* resolve, step 2a: open the reference as a path.
LocalOpen ==
    /\ pc = "local_open"
    /\ LET p == Components(ref)
           r == open(p)
       IN  /\ calls' = Append(calls, OpenCall(p, r))
           /\ pc' = CASE r.kind = "ok" -> "done"
                      [] r.kind = "err" -> "local_cache"
                      [] OTHER -> "crashed"
           /\ result' = IF r.kind = "err" THEN NoResult ELSE r
    /\ UNCHANGED <<cache, engine, repos, progDir, ref, clonedSinceClear, lastClear,
                   apiOut, derived, walkOut, sel, pathsOut, urlOut, race>>

\* resolve, step 2b: open the reference as the name of a cached repository.
CacheOpen ==
    /\ pc = "local_cache"
    /\ LET p == repository_path(cache, ref)
           r == open(p)
       IN  /\ calls' = Append(calls, OpenCall(p, r))
           /\ pc' = IF r.kind = "panic" THEN "crashed" ELSE "done"
           /\ result' = r
    /\ UNCHANGED <<cache, engine, repos, progDir, ref, clonedSinceClear, lastClear,
                   apiOut, derived, walkOut, sel, pathsOut, urlOut, race>>

\* Cache::clear, run between resolutions.
Clear ==
    /\ Stopped
    /\ LET c == Cache_clear
       IN  /\ lastClear' = [ret |-> c.ret, after |-> lastClear.ret,
                          prior |-> IF c.ret = "ok"
                                    THEN {x \in Strings(MaxLen) :
                                            repository_exists(cache, x)}
                                    ELSE lastClear.prior]
           /\ repos' = c.repos
           /\ progDir' = c.progDir
           /\ clonedSinceClear' = IF c.ret = "ok" THEN {} ELSE clonedSinceClear
    /\ pc' = "idle"
    /\ ref' = << >>
    /\ calls' = << >>
    /\ result' = NoResult
    /\ UNCHANGED <<cache, engine, apiOut, derived, walkOut, sel, pathsOut, urlOut, race>>

Next ==
    \/ \E reference \in References : Start(reference)
    \/ UrlOpen
    \/ UrlClone
    \/ LocalOpen
    \/ CacheOpen
    \/ Clear

Spec == Init /\ [][Next]_vars

----------------------------------------------------------------------------
(* Cache paths as pure functions, checked under SpecCache *)

NameAlphabet == {"g", "/"}

ProgramNameStrings == UNION {[1..k -> NameAlphabet] : k \in 0..MaxLen}

InitCache ==
    /\ cache \in {Cache_new(n) : n \in ProgramNameStrings}
    /\ engine = "Git2"
    /\ repos = [p \in LocalRepos |-> LocalOrigin]
    /\ progDir = FALSE
    /\ Quiet

\* A call of Cache::repository_path_url.
DeriveUrl(repo_url) ==
    /\ derived' = [called |-> TRUE, url |-> repo_url,
                   result |-> repository_path_url(cache, repo_url)]
    /\ UNCHANGED <<cache, engine, repos, progDir, pc, ref, calls, result,
                   clonedSinceClear, lastClear, apiOut, walkOut, sel, pathsOut, urlOut, race>>

\* A call of Cache::program_path and of Cache::repository_path.
RepositoryPath(repo_name) ==
    /\ pathsOut' = [called |-> TRUE, name |-> repo_name,
                    program |-> program_path(cache),
                    result |-> repository_path(cache, repo_name)]
    /\ UNCHANGED <<cache, engine, repos, progDir, pc, ref, calls, result,
                   clonedSinceClear, lastClear, apiOut, derived, walkOut, sel,
                   urlOut, race>>

NextCache ==
    \/ \E repo_url \in References : DeriveUrl(repo_url)
    \/ \E repo_name \in Strings(MaxLen) : RepositoryPath(repo_name)

SpecCache == InitCache /\ [][NextCache]_vars

----------------------------------------------------------------------------
(* Repository handles: commits, and the GitBin engine called directly;
   checked under SpecRepo *)

ListOk(l) == [kind |-> "ok", list |-> l]

ListErr == [kind |-> "err", list |-> << >>]

ListPanic == [kind |-> "panic", list |-> << >>]

\* What can be wrong with a commit object of the walk.
Defects == {"none", "unreadable", "author_name", "author_email",
            "committer_name", "committer_email", "summary"}

Field(defect, d, v) == IF defect = d THEN None ELSE Some(v)

\* A commit object of the repository: a signature's name or email and the
\* summary are absent (None) when they are not valid UTF-8.
Object(hash, defect) ==
    [hash |-> hash,
     readable |-> defect # "unreadable",
     author |-> [name |-> Field(defect, "author_name", 1),
                 email |-> Field(defect, "author_email", 2)],
     committer |-> [name |-> Field(defect, "committer_name", 3),
                    email |-> Field(defect, "committer_email", 4)],
     summary |-> Field(defect, "summary", 5)]

Walks == UNION {{[i \in 1..k |-> Object(i, d[i])] : d \in [1..k -> Defects]} : k \in 0..MaxWalk}

\* The state of refs/remotes/origin/<branch>.
ReferenceStates == {"missing", "direct", "symbolic"}

\* The loop of commits over the revwalk: find_commit(oid?)? is an error on an
\* unreadable object, each unwrap() panics on None.
RECURSIVE CollectCommits(_, _, _)
CollectCommits(walk, i, commits) ==
    IF i > Len(walk) THEN ListOk(commits)
    ELSE LET commit == walk[i]
         IN  IF ~commit.readable THEN ListErr
             ELSE IF ~commit.author.name.some THEN ListPanic
             ELSE IF ~commit.author.email.some THEN ListPanic
             ELSE IF ~commit.committer.name.some THEN ListPanic
             ELSE IF ~commit.committer.email.some THEN ListPanic
             ELSE IF ~commit.summary.some THEN ListPanic
             ELSE CollectCommits(walk, i + 1, Append(commits,
                    [hash |-> commit.hash,
                     author |-> [name |-> commit.author.name.val,
                                 email |-> commit.author.email.val],
                     committer |-> [name |-> commit.committer.name.val,
                                    email |-> commit.committer.email.val],
                     message |-> commit.summary.val]))

\* commits with the lookup of the reference left out: the walk starts whether
\* the reference exists or not.
Git2Repository_commits_unchecked(reference, walk) ==
    IF reference = "symbolic" THEN ListPanic
    ELSE CollectCommits(walk, 1, << >>)

\* <Git2Repository as Repository>::commits: find_reference(..)? is an error on a
\* missing reference, reference.target().unwrap() panics on a symbolic one.
Git2Repository_commits(reference, walk) ==
    IF reference = "missing" THEN ListErr
    ELSE IF reference = "symbolic" THEN ListPanic
    ELSE CollectCommits(walk, 1, << >>)

\* The commit objects find_commit was called on: the loop stops at the first
\* object it cannot read or convert.
RECURSIVE ObjectsRead(_, _)
ObjectsRead(walk, i) ==
    IF i > Len(walk) THEN 0
    ELSE IF CollectCommits(SubSeq(walk, i, i), 1, << >>).kind # "ok" THEN 1
    ELSE 1 + ObjectsRead(walk, i + 1)

\* The loop over the revwalk runs only once find_reference and target gave an
\* object id.
commits_read(reference, walk) ==
    IF reference = "direct" THEN ObjectsRead(walk, 1) ELSE 0

\* What the git2::Error of an error result reports: find_reference fails with
\* the reference class and the not-found code, its message naming the
\* reference; find_commit fails on the object.
commits_error(reference, walk) ==
    IF reference = "missing" THEN "reference_not_found"
    ELSE IF reference = "direct" /\ CollectCommits(walk, 1, << >>).kind = "err"
    THEN "object"
    ELSE "none"

InitRepo ==
    /\ cache = Cache_new(<<"g">>)
    /\ engine = "Git2"
    /\ repos = [p \in LocalRepos |-> LocalOrigin]
    /\ progDir = FALSE
    /\ Quiet

\* A call of commits(branch) on a handle whose repository holds this
\* reference and this history.
Commits(reference, walk) ==
    /\ walkOut' = [called |-> TRUE, reference |-> reference, walk |-> walk,
                   result |-> Git2Repository_commits(reference, walk),
                   error |-> commits_error(reference, walk),
                   read |-> commits_read(reference, walk)]
    /\ UNCHANGED <<cache, engine, repos, progDir, pc, ref, calls, result,
                   clonedSinceClear, lastClear, apiOut, derived, sel, pathsOut, urlOut, race>>

\* A call of GitBin::open or GitBin::clone.  Their repository type is the
\* uninhabited private::Void, so no handle exists to call url or commits on.
GitBinCall(op, repo_url, repo_path) ==
    /\ apiOut' = [called |-> TRUE, op |-> op,
                  result |-> IF op = "open"
                             THEN GitBin_open(repo_path)
                             ELSE GitBin_clone(repo_url, repo_path, TRUE).res]
    /\ UNCHANGED <<cache, engine, repos, progDir, pc, ref, calls, result,
                   clonedSinceClear, lastClear, derived, walkOut, sel, pathsOut, urlOut, race>>

\* The remote named origin of a repository: not configured; configured with
\* Remote::url() None (git2 returns None for a URL that is not valid UTF-8 or
\* is not set); configured with a URL.
Remotes ==
    {[found |-> FALSE, url |-> None], [found |-> TRUE, url |-> None]}
        \cup {[found |-> TRUE, url |-> Some(u)] : u \in References}

\* <Git2Repository as Repository>::url: find_remote("origin")? is an error
\* when the remote is not found, url().unwrap() panics on None.
Git2Repository_url(remote) ==
    IF ~remote.found THEN [kind |-> "err", url |-> << >>]
    ELSE IF ~remote.url.some THEN [kind |-> "panic", url |-> << >>]
    ELSE [kind |-> "ok", url |-> remote.url.val]

\* A call of url() on a handle whose repository has this origin remote.
Url(remote) ==
    /\ urlOut' = [called |-> TRUE, remote |-> remote,
                  result |-> Git2Repository_url(remote)]
    /\ UNCHANGED <<cache, engine, repos, progDir, pc, ref, calls, result,
                   clonedSinceClear, lastClear, apiOut, derived, walkOut, sel,
                   pathsOut, race>>

NextRepo ==
    \/ \E reference \in ReferenceStates, walk \in Walks : Commits(reference, walk)
    \/ \E remote \in Remotes : Url(remote)
    \/ \E op \in {"open", "clone"}, r \in References :
          GitBinCall(op, r, repository_path(cache, r))

SpecRepo == InitRepo /\ [][NextRepo]_vars

----------------------------------------------------------------------------
(* Commit range selection, checked under SpecRange *)

GoodCommit(hash) ==
    [hash |-> hash, author |-> [name |-> 1, email |-> 2],
     committer |-> [name |-> 3, email |-> 4], message |-> 5]

\* The lists commits(branch) returns: commits of distinct hashes.
CommitLists == {[i \in 1..k |-> GoodCommit(i)] : k \in 0..MaxCommits}

\* A boundary: not supplied, the hash of a commit, or a hash of no commit.
Boundaries == {None} \cup {Some(h) : h \in 1..(MaxCommits + 1)}

\* Mutant: a supplied hash that matches no commit yields the last index.
find_index_or_last(commits, hash) ==
    IF hash.some /\ \E i \in 1..Len(commits) : commits[i].hash = hash.val
    THEN Some(MinOf({i \in 1..Len(commits) : commits[i].hash = hash.val}) - 1)
    ELSE IF hash.some /\ commits # << >> THEN Some(Len(commits) - 1) ELSE None

\* Linear search by hash equality; the index counts from 0.
find_index(commits, hash) ==
    IF hash.some /\ \E i \in 1..Len(commits) : commits[i].hash = hash.val
    THEN Some(MinOf({i \in 1..Len(commits) : commits[i].hash = hash.val}) - 1)
    ELSE None

unwrap_or(option, default) == IF option.some THEN option.val ELSE default

saturating_sub(a, b) == IF a >= b THEN a - b ELSE 0

\* Mutant: the slice leaves out its last element.
slice_exclusive(v, first, last) ==
    IF last >= Len(v) \/ first > last + 1
    THEN ListPanic
    ELSE ListOk(SubSeq(v, first + 1, last))

\* v[first..=last], indices from 0: defined when last is an index of v and
\* first <= last + 1.
slice_inclusive(v, first, last) ==
    IF last >= Len(v) \/ first > last + 1
    THEN ListPanic
    ELSE ListOk(SubSeq(v, first + 1, last + 1))

select_range(commits, start, end) ==
    LET first == unwrap_or(find_index(commits, start), 0)
        last == unwrap_or(find_index(commits, end), saturating_sub(Len(commits), 1))
    IN  slice_inclusive(commits, first, last)

InitRange ==
    /\ cache = Cache_new(<<"g">>)
    /\ engine = "Git2"
    /\ repos = [p \in LocalRepos |-> LocalOrigin]
    /\ progDir = FALSE
    /\ Quiet

Select(commits, start, end) ==
    /\ sel' = [called |-> TRUE, commits |-> commits, start |-> start, end |-> end,
               result |-> select_range(commits, start, end)]
    /\ UNCHANGED <<cache, engine, repos, progDir, pc, ref, calls, result,
                   clonedSinceClear, lastClear, apiOut, derived, walkOut,
                   pathsOut, urlOut, race>>

NextRange ==
    \E commits \in CommitLists, start \in Boundaries, end \in Boundaries :
        Select(commits, start, end)

SpecRange == InitRange /\ [][NextRange]_vars

----------------------------------------------------------------------------
(* Two resolutions of one URL at once, checked under SpecRace *)

Procs == {1, 2}

Urls == {r \in References : is_url(r)}

InitRace ==
    /\ cache = Cache_new(<<"g">>)
    /\ engine = "Git2"
    /\ repos = [p \in LocalRepos |-> LocalOrigin]
    /\ progDir \in BOOLEAN
    /\ pc = "idle" /\ ref = << >> /\ calls = << >> /\ result = NoResult
    /\ clonedSinceClear = {} /\ lastClear = NoClear
    /\ apiOut = IdleApi /\ pathsOut = IdlePaths /\ urlOut = IdleUrl
    /\ derived = IdleDerived /\ walkOut = IdleWalk /\ sel = IdleSel
    /\ race \in {[url |-> u, pc |-> [i \in Procs |-> "open"],
                   res |-> [i \in Procs |-> NoResult], writers |-> {}] : u \in Urls}

RacePath == repository_path_url(cache, race.url).path

\* resolve, step 1b, in one process: open the cache path.
RaceOpen(i) ==
    /\ race.pc[i] = "open"
    /\ LET r == Git2_open(RacePath)
       IN  race' = [race EXCEPT !.pc[i] = IF r.kind = "ok" THEN "done" ELSE "check",
                                !.res[i] = IF r.kind = "ok" THEN r ELSE NoResult]
    /\ UNCHANGED <<cache, engine, repos, progDir, pc, ref, calls, result,
                   clonedSinceClear, lastClear, apiOut, derived, walkOut, sel,
                   pathsOut, urlOut>>

\* Git2Repository::clone, first half: the clone looks at its destination and
\* fails when it is occupied.  Nothing holds the destination between this
\* look and the writes that follow.
RaceCheck(i) ==
    /\ race.pc[i] = "check"
    /\ race' = IF Occupied(RacePath)
               THEN [race EXCEPT !.pc[i] = "done", !.res[i] = Err("EngineError")]
               ELSE [race EXCEPT !.pc[i] = "write"]
    /\ UNCHANGED <<cache, engine, repos, progDir, pc, ref, calls, result,
                   clonedSinceClear, lastClear, apiOut, derived, walkOut, sel,
                   pathsOut, urlOut>>

\* Git2Repository::clone, second half: the repository is fetched and written
\* to the destination.
RaceWrite(i, remoteOk) ==
    /\ race.pc[i] = "write"
    /\ IF remoteOk
       THEN /\ repos' = (RacePath :> race.url) @@ repos
            /\ progDir' = (progDir \/ IsPrefix(program_path(cache), RacePath))
            /\ race' = [race EXCEPT !.pc[i] = "done", !.res[i] = Ok(RacePath),
                                    !.writers = @ \cup {i}]
       ELSE /\ race' = [race EXCEPT !.pc[i] = "done", !.res[i] = Err("EngineError")]
            /\ UNCHANGED <<repos, progDir>>
    /\ UNCHANGED <<cache, engine, pc, ref, calls, result,
                   clonedSinceClear, lastClear, apiOut, derived, walkOut, sel,
                   pathsOut, urlOut>>

NextRace ==
    \E i \in Procs :
        \/ RaceOpen(i)
        \/ RaceCheck(i)
        \/ \E remoteOk \in BOOLEAN : RaceWrite(i, remoteOk)

SpecRace == InitRace /\ [][NextRace]_vars

----------------------------------------------------------------------------
(* Claims about the resolver, checked under Spec *)

CachePath(reference) == repository_path_url(cache, reference).path

Clones == {i \in 1..Len(calls) : calls[i].op = "clone"}

\* The result a call record stands for.
Returned(call) ==
    IF call.out = "ok" THEN Ok(call.path) ELSE Err("EngineError")

\* C1: a URL whose cache path holds a repository resolves to the handle of the
\* open of that path, and the resolution makes no clone call.
C1_CachedUrlOpensWithoutClone ==
    /\ [][(pc = "url_open" /\ engine = "Git2" /\ CachePath(ref) \in DOMAIN repos)
            => /\ pc' = "done"
               /\ result' = Ok(CachePath(ref))
               /\ calls' = <<[op |-> "open", url |-> << >>,
                              path |-> CachePath(ref), out |-> "ok"]>>]_vars
    /\ []((is_url(ref) /\ Len(calls) >= 1 /\ calls[1].out = "ok")
            => (Len(calls) = 1 /\ Clones = {}))

C1_Witness ==
    /\ pc = "done" /\ is_url(ref) /\ engine = "Git2"
    /\ Len(calls) = 1 /\ calls[1].op = "open" /\ calls[1].out = "ok"
    /\ result = Ok(CachePath(ref))

\* C2: a URL whose cache path holds no repository is opened at the cache path
\* (which fails), then cloned exactly once into that same path; the clone's
\* result is the result of the resolution, and a failed clone ends it.
C2_UncachedUrlOpensThenClonesOnce ==
    /\ [][(pc = "url_open" /\ engine = "Git2" /\ CachePath(ref) \notin DOMAIN repos)
            => /\ pc' = "url_clone"
               /\ calls' = <<[op |-> "open", url |-> << >>,
                              path |-> CachePath(ref), out |-> "err"]>>]_vars
    /\ [][pc = "url_clone"
            => /\ pc' = "done"
               /\ Len(calls') = 2
               /\ calls'[1] = calls[1]
               /\ calls'[2].op = "clone"
               /\ calls'[2].url = ref
               /\ calls'[2].path = calls[1].path
               /\ result' = Returned(calls'[2])]_vars
    /\ []((is_url(ref) /\ pc = "done" /\ Len(calls) >= 1 /\ calls[1].out = "err")
            => Cardinality(Clones) = 1)

C2_Witness ==
    /\ pc = "done" /\ is_url(ref)
    /\ Len(calls) = 2 /\ calls[1].op = "open" /\ calls[1].out = "err"
    /\ calls[2].op = "clone" /\ calls[2].out = "err"
    /\ result = Err("EngineError")

\* C3: with no clear in between, once a resolution of a URL has succeeded by
\* cloning, every later resolution of that URL succeeds by the open of its
\* cache path and clones nothing.
C3_ClonedUrlIsNeverClonedAgain ==
    /\ [][(pc = "url_open" /\ ref \in clonedSinceClear)
            => /\ pc' = "done"
               /\ result' = Ok(CachePath(ref))
               /\ Len(calls') = 1 /\ calls'[1].op = "open" /\ calls'[1].out = "ok"]_vars
    /\ [](pc = "url_clone" => ref \notin clonedSinceClear)

C3_Witness ==
    /\ pc = "done" /\ ref \in clonedSinceClear
    /\ Len(calls) = 1 /\ calls[1].op = "open" /\ calls[1].out = "ok"
    /\ result.kind = "ok"

\* C7: a reference that is no URL and opens as a path resolves to that handle
\* with no further engine call: no open of the cache, no clone.
C7_LocalPathOpensWithoutCache ==
    /\ [][(pc = "local_open" /\ engine = "Git2" /\ Components(ref) \in DOMAIN repos)
            => /\ pc' = "done"
               /\ result' = Ok(Components(ref))
               /\ calls' = <<[op |-> "open", url |-> << >>,
                              path |-> Components(ref), out |-> "ok"]>>]_vars
    /\ []((~is_url(ref) /\ Len(calls) >= 1 /\ calls[1].out = "ok") => Len(calls) = 1)

C7_Witness ==
    /\ pc = "done" /\ ~is_url(ref) /\ engine = "Git2"
    /\ Len(calls) = 1 /\ calls[1].path = Components(ref) /\ calls[1].out = "ok"
    /\ result = Ok(Components(ref))

\* C8: a reference that is no URL and fails to open as a path is opened next,
\* and last, at repository_path(reference); that open's result is the result of
\* the resolution, and no clone is made.
C8_LocalFailureFallsBackToCache ==
    /\ [][(pc = "local_open" /\ engine = "Git2" /\ Components(ref) \notin DOMAIN repos)
            => /\ pc' = "local_cache"
               /\ calls' = <<[op |-> "open", url |-> << >>,
                              path |-> Components(ref), out |-> "err"]>>]_vars
    /\ [][pc = "local_cache"
            => /\ pc' = "done"
               /\ Len(calls') = 2
               /\ calls'[1] = calls[1]
               /\ calls'[2].op = "open"
               /\ calls'[2].path = repository_path(cache, ref)
               /\ result' = Returned(calls'[2])]_vars
    /\ [](~is_url(ref) => Clones = {})

C8_Witness ==
    /\ pc = "done" /\ ~is_url(ref)
    /\ Len(calls) = 2 /\ calls[1].out = "err"
    /\ calls[2].op = "open" /\ calls[2].out = "ok"
    /\ result = Ok(repository_path(cache, ref))

\* A URL with no repository name: the empty string, or one ending in '/'.
NoRepositoryName(url) == url = << >> \/ url[Len(url)] = "/"

----------------------------------------------------------------------------
(* Claims about the cache paths, checked under SpecCache *)

\* The text after the last '/' of a string, the whole string when it has none.
FinalSegment(url) ==
    LET k == CHOOSE n \in 0..Len(url) :
                /\ \A i \in (Len(url) - n + 1)..Len(url) : url[i] # "/"
                /\ (n = Len(url) \/ url[Len(url) - n] = "/")
    IN  SubSeq(url, Len(url) - k + 1, Len(url))

\* C4: repository_path_url(url) is repository_path(n) for the final segment n
\* of url when n is not empty, and an error when url is empty or ends in '/'.
C4_FinalSegmentPathOrError ==
    derived.called =>
        IF NoRepositoryName(derived.url)
        THEN ~derived.result.ok
        ELSE derived.result =
                [ok |-> TRUE, path |-> repository_path(cache, FinalSegment(derived.url))]

----------------------------------------------------------------------------
(* Claims about the engines and handles, checked under SpecRepo *)

\* C5: every call of the GitBin engine returns an error value: none panics and
\* none reports success.
C5_StubReturnsErrorValue ==
    apiOut.called => apiOut.result.kind = "err"

Defective(object) ==
    \/ ~object.readable
    \/ ~object.author.name.some \/ ~object.author.email.some
    \/ ~object.committer.name.some \/ ~object.committer.email.some
    \/ ~object.summary.some

\* C6: commits returns the complete commit sequence or one error value: with a
\* commit in the walk that is unreadable or lacks a name, an email or the
\* summary, the result is an error, never a partial list and never a panic.
C6_CompleteListOrError ==
    (walkOut.called /\ walkOut.reference = "direct") =>
        /\ walkOut.result.kind \in {"ok", "err"}
        /\ (\E i \in 1..Len(walkOut.walk) : Defective(walkOut.walk[i]))
              => walkOut.result.kind = "err"
        /\ walkOut.result.kind = "ok"
              => /\ Len(walkOut.result.list) = Len(walkOut.walk)
                 /\ \A i \in 1..Len(walkOut.walk) :
                        walkOut.result.list[i].hash = walkOut.walk[i].hash

----------------------------------------------------------------------------
(* Claims about the range selection, checked under SpecRange *)

\* The index, from 0, of the commit a supplied hash matches.
Matches(commits, boundary) ==
    {i \in 0..(Len(commits) - 1) : boundary.some /\ commits[i + 1].hash = boundary.val}

EffectiveStart(commits, start) ==
    IF Matches(commits, start) = {} THEN 0 ELSE MinOf(Matches(commits, start))

EffectiveEnd(commits, end) ==
    IF Matches(commits, end) # {} THEN MinOf(Matches(commits, end))
    ELSE IF commits = << >> THEN 0 ELSE Len(commits) - 1

\* C10: a selection that returns a list returns the commits at the indices
\* start..end, both included, in the order of the list; of five commits, start
\* at the second and end at the fourth give the second, third and fourth; with
\* neither hash supplied the list is returned whole.
C10_InclusiveSlice ==
    sel.called =>
        LET first == EffectiveStart(sel.commits, sel.start)
            last == EffectiveEnd(sel.commits, sel.end)
        IN  /\ sel.result.kind = "ok"
                 => /\ Len(sel.result.list) = last + 1 - first
                    /\ \A i \in 1..Len(sel.result.list) :
                          sel.result.list[i] = sel.commits[first + i]
            /\ (/\ Len(sel.commits) = 5
                /\ sel.start = Some(sel.commits[2].hash)
                /\ sel.end = Some(sel.commits[4].hash))
                 => sel.result =
                      ListOk(<<sel.commits[2], sel.commits[3], sel.commits[4]>>)
            /\ (sel.commits # << >> /\ sel.start = None /\ sel.end = None)
                 => sel.result = ListOk(sel.commits)

C10_Witness ==
    /\ sel.called
    /\ Len(sel.commits) = 5
    /\ sel.start = Some(sel.commits[2].hash)
    /\ sel.end = Some(sel.commits[4].hash)
    /\ sel.result = ListOk(<<sel.commits[2], sel.commits[3], sel.commits[4]>>)

Unmatched(commits, boundary) == boundary.some /\ Matches(commits, boundary) = {}

\* C11: a supplied hash that matches no commit selects what the same selection
\* selects without that boundary: an unmatched start begins at the first
\* commit, an unmatched end stops at the last, and no error is returned.
C11_UnmatchedHashAsNotSupplied ==
    sel.called =>
        /\ Unmatched(sel.commits, sel.start)
              => /\ sel.result = select_range(sel.commits, None, sel.end)
                 /\ sel.result.kind = "ok" /\ sel.result.list # << >>
                       => sel.result.list[1] = sel.commits[1]
        /\ Unmatched(sel.commits, sel.end)
              => /\ sel.result = select_range(sel.commits, sel.start, None)
                 /\ sel.result.kind = "ok" /\ sel.result.list # << >>
                       => sel.result.list[Len(sel.result.list)]
                             = sel.commits[Len(sel.commits)]
        /\ sel.result.kind # "err"

C11_Witness ==
    /\ sel.called
    /\ Len(sel.commits) >= 2
    /\ Unmatched(sel.commits, sel.start)
    /\ sel.end = Some(sel.commits[2].hash)
    /\ sel.result = ListOk(<<sel.commits[1], sel.commits[2]>>)

\* C12: after a successful clear, repository_exists(x) is false for every name
\* x it was true for before, and a clear called right after a successful clear
\* fails because the program cache directory is already absent.
C12_ClearForgetsEveryName ==
    /\ lastClear.ret = "ok"
          => \A x \in lastClear.prior : ~repository_exists(cache, x)
    /\ lastClear.after = "ok" /\ lastClear.ret # "none"
          => lastClear.ret = "err" /\ ~progDir

\* C13: for every program name Cache::new accepts, program_path is a direct
\* child of the cache root, and repository_path(name) is program_path with the
\* components of name appended.
C13_ProgramPathDirectChild ==
    pathsOut.called =>
        /\ IsPrefix(cache.path, pathsOut.program)
        /\ Len(pathsOut.program) = Len(cache.path) + 1
        /\ pathsOut.result
              = pathsOut.program \o SelectSeq(Split(pathsOut.name), NonEmpty)

\* C14: commits on a repository without the reference refs/remotes/origin/<branch>
\* returns an engine error that identifies the missing reference, whatever the
\* history holds: no commit object is read and no commit list is returned.
C14_MissingReferenceIsAnError ==
    (walkOut.called /\ walkOut.reference = "missing") =>
        /\ walkOut.result = ListErr
        /\ walkOut.error = "reference_not_found"
        /\ walkOut.read = 0

C14_Witness ==
    /\ walkOut.called /\ walkOut.reference = "missing"
    /\ Len(walkOut.walk) = MaxWalk
    /\ \A i \in 1..Len(walkOut.walk) : ~Defective(walkOut.walk[i])
    /\ walkOut.result = ListErr

\* C15: url() returns the URL of the remote named origin, and an engine error
\* value, never a crash, when no remote named origin exists and when that
\* remote has no URL.
C15_UrlOrErrorValue ==
    urlOut.called =>
        /\ (urlOut.remote.found /\ urlOut.remote.url.some)
              => urlOut.result = [kind |-> "ok", url |-> urlOut.remote.url.val]
        /\ ~(urlOut.remote.found /\ urlOut.remote.url.some)
              => urlOut.result.kind = "err"

C17_SliceAlwaysDefined ==
    sel.called =>
        LET first == EffectiveStart(sel.commits, sel.start)
            last == EffectiveEnd(sel.commits, sel.end)
        IN  /\ first <= last
            /\ first < Len(sel.commits)
            /\ last < Len(sel.commits)
            /\ sel.result.kind = "ok"

\* C18: the handle a resolution returns for a URL refers to a repository that
\* was cloned from that URL: two distinct URLs never resolve to one cached clone.
C18_HandleIsACloneOfItsUrl ==
    (pc = "done" /\ is_url(ref) /\ result.kind = "ok") =>
        /\ result.path \in DOMAIN repos
        /\ repos[result.path] = ref

====
